---- MODULE Spec2Model ----
(***************************************************************************)
(* BubbleDataType (src/src/BubbleDataType.ts): the record client base.     *)
(* One caller runs one public operation at a time; every `await` of an     *)
(* axios call is a suspension point, the transport and the remote object   *)
(* API are the environment that answers the request in flight.  getAll and  *)
(* getOne await the promise of search: the continuation of search and the  *)
(* continuation of its caller are separate jobs.                           *)
(*                                                                         *)
(* JavaScript values: an object is a function from its own keys to their   *)
(* values (an absent key reads as undefined), an array is a sequence, an   *)
(* optional value is a sequence of length 0 (undefined) or 1.              *)
(***************************************************************************)
EXTENDS Integers, Sequences, FiniteSets, TLC

VARIABLES pc, op, arg, inflight, reply, requests, responses, searched,
          cursor, results, outcome, store, created, faulty

vars == <<pc, op, arg, inflight, reply, requests, responses, searched,
          cursor, results, outcome, store, created, faulty>>

\* ------------------------------------------------------------------ bounds

\* page requests one getAll call may issue before the model stops following it
MaxPages == 3
\* records in one page of search results
MaxPageLen == 2
\* records the backing store holds
MaxStored == 2

\* ------------------------------------------------------------------ values

EmptyObj == [k \in {} |-> ""]

\* Object.assign(target, source): source's own keys overwrite target's
Assign(target, source) ==
    [k \in (DOMAIN target) \cup (DOMAIN source) |->
        IF k \in DOMAIN source THEN source[k] ELSE target[k]]

\* obj[k] as an optional value: <<>> is undefined
Get(obj, k) == IF k \in DOMAIN obj THEN <<obj[k]>> ELSE <<>>

\* new this(args): the constructor assigns every key of args to the instance;
\* Object.assign ignores an undefined source
New(args) == IF Len(args) = 0 THEN EmptyObj ELSE Assign(EmptyObj, args[1])

Return(v) == [kind |-> "return", value |-> v]
Throw(msg) == [kind |-> "throw", value |-> msg]
NoOutcome == [kind |-> "none"]
\* the value of a Promise<void>
Void == <<>>

NoBodyError == "Unexpected response from bubble: no body"
CreateFailedPrefix == "create request failed with status: "
SearchFailedError == "search request failed"
SaveNoIdError == "Cannot call save on a BubbleDataType without an _id value."
\* what the rejected axios promise carries: the transport's own error
TransportError == "AxiosError"
\* reading a property of undefined
TypeError == "TypeError"

\* ------------------------------------------------------------------ configuration, url, headers

BubbleConfigGet == [app |-> "myapp", appVersion |-> "version-test", apiKey |-> "secret"]
TypeName == "ticket"

Headers == [Authorization |-> "Bearer " \o BubbleConfigGet.apiKey]

ObjectUrl ==
    LET versionPart == IF BubbleConfigGet.appVersion # ""
                       THEN "/" \o BubbleConfigGet.appVersion ELSE ""
    IN "https://" \o BubbleConfigGet.app \o ".bubbleapps.io" \o versionPart
           \o "/api/1.1/obj/" \o TypeName

\* ------------------------------------------------------------------ inputs

IdOf(n) == "id" \o ToString(n)
\* identifiers the store assigns, and one it never assigns
StoreIds == {IdOf(n) : n \in 1..MaxStored}
LookupIds == StoreIds \cup {"unknown"}

\* caller fields for create (never the base attributes)
DataChoices == {EmptyObj, [name |-> "x"], [name |-> "y", color |-> "x"]}

\* instances save is called on: identifier absent, empty, or set
SaveInstances ==
    {Assign(d, i) : d \in {EmptyObj, [name |-> "z"]},
                    i \in {EmptyObj, [_id |-> ""]} \cup {[_id |-> id] : id \in LookupIds}}

\* ------------------------------------------------------------------ getByID

GetByIDRequest(id) ==
    [method |-> "GET", url |-> ObjectUrl \o "/" \o id, headers |-> Headers]

\* what getByID makes of the axios result
GetByIDResult(res) ==
    IF ~res.ok THEN Throw(TransportError)
    ELSE IF Len(res.data) = 0 THEN Throw(NoBodyError)
    ELSE Return(New(Get(res.data[1], "response")))

\* ------------------------------------------------------------------ create

\* the caller's fields are not sent
CreateRequestNoData(data) ==
    [method |-> "POST", url |-> ObjectUrl \o "/", data |-> EmptyObj, headers |-> Headers]

CreateRequest(data) ==
    [method |-> "POST", url |-> ObjectUrl \o "/", data |-> data, headers |-> Headers]

\* an empty identifier passes
CreateFailedAllowsEmptyId(body) ==
    \/ Get(body, "status") # <<"success">>
    \/ Get(body, "id") = <<>>

\* res.data.status !== "success" || !res.data.id
CreateFailed(body) ==
    \/ Get(body, "status") # <<"success">>
    \/ Get(body, "id") \in {<<>>, <<"">>}

CreateResult(res) ==
    IF ~res.ok THEN Throw(TransportError)
    ELSE IF Len(res.data) = 0 THEN Throw(NoBodyError)
    ELSE LET body == res.data[1]
             status == IF "status" \in DOMAIN body THEN body.status ELSE "undefined"
         IN IF CreateFailed(body)
            THEN Throw(CreateFailedPrefix \o status)
            ELSE Return(body.id)

\* ------------------------------------------------------------------ save

\* an empty identifier passes
MissingIdOnlyAbsent(inst) == "_id" \notin DOMAIN inst

\* !this._id
MissingId(inst) == Get(inst, "_id") \in {<<>>, <<"">>}

SaveRequest(inst) ==
    [method |-> "PATCH", url |-> ObjectUrl \o "/" \o inst._id,
     data |-> Assign(EmptyObj, inst), headers |-> Headers]

\* save validates nothing in the response
SaveResult(res) == IF ~res.ok THEN Throw(TransportError) ELSE Return(Void)

\* ------------------------------------------------------------------ search

SeqsUpTo(S, n) == UNION {[1..k -> S] : k \in 0..n}

Constraint1 == [key |-> "status", constraint_type |-> "equals", value |-> "open"]
Constraint2 == [key |-> "owner", constraint_type |-> "not equal", value |-> "bob"]

SortChoices ==
    {[sort_field |-> "createdAt"],
     [sort_field |-> "createdAt", descending |-> TRUE],
     [sort_field |-> "createdAt", descending |-> FALSE]}

\* every combination of the optional keys of a SearchConfig
Configs(constraintChoices, cursorChoices) ==
    {Assign(Assign(c, s), k) :
        c \in {EmptyObj} \cup {[constraints |-> x] : x \in constraintChoices},
        s \in {EmptyObj} \cup {[sort |-> x] : x \in SortChoices},
        k \in {EmptyObj} \cup {[cursor |-> x] : x \in cursorChoices}}

SearchConfigs == Configs({<<>>, <<Constraint1>>, <<Constraint1, Constraint2>>}, {0, 1})
\* Omit<SearchConfig, "cursor">
PagingConfigs == Configs({<<Constraint1>>}, {})
\* the configurations getAll is followed with
GetAllConfigs ==
    {[constraints |-> <<Constraint1>>],
     [sort |-> [sort_field |-> "createdAt", descending |-> TRUE]]}

\* JSON.stringify of a string, of a constraint object, of an array of them
JSONString(s) == "\"" \o s \o "\""

JSONConstraint(c) ==
    "{\"key\":" \o JSONString(c.key)
        \o ",\"constraint_type\":" \o JSONString(c.constraint_type)
        \o ",\"value\":" \o JSONString(c.value) \o "}"

RECURSIVE JSONElements(_)
JSONElements(cs) ==
    IF Len(cs) = 0 THEN ""
    ELSE IF Len(cs) = 1 THEN JSONConstraint(cs[1])
    ELSE JSONConstraint(cs[1]) \o "," \o JSONElements(Tail(cs))

JSONStringify(cs) == "[" \o JSONElements(cs) \o "]"

\* a query parameter value keeps its JavaScript type
JsString(s) == [string |-> s]
JsBoolean(b) == [boolean |-> b]

\* both directions serialized as strings
DescendingAlwaysString(config) ==
    IF "sort" \in DOMAIN config /\ Get(config.sort, "descending") = <<TRUE>>
    THEN JsString("true") ELSE JsString("false")

\* config.sort?.descending ? "true" : false
Descending(config) ==
    IF "sort" \in DOMAIN config /\ Get(config.sort, "descending") = <<TRUE>>
    THEN JsString("true") ELSE JsBoolean(FALSE)

\* the params object of the search request; a key whose value is undefined is
\* left out, as axios leaves it out of the query string
SearchParams(config) ==
    LET constraints == IF "constraints" \in DOMAIN config
                       THEN config.constraints ELSE <<>>
        base == [constraints |-> JSONStringify(constraints),
                 descending |-> Descending(config)]
        sortField == IF "sort" \in DOMAIN config /\ "sort_field" \in DOMAIN config.sort
                     THEN [sort_field |-> config.sort.sort_field] ELSE EmptyObj
        cur == IF "cursor" \in DOMAIN config
               THEN [cursor |-> config.cursor] ELSE EmptyObj
    IN Assign(Assign(base, sortField), cur)

SearchRequest(config) ==
    [method |-> "GET", url |-> ObjectUrl, headers |-> Headers,
     params |-> SearchParams(config)]

\* !res.data?.response
SearchFailed(res) == Len(res.data) = 0 \/ "response" \notin DOMAIN res.data[1]

SearchResult(res) ==
    IF ~res.ok THEN Throw(TransportError)
    ELSE IF SearchFailed(res) THEN Throw(SearchFailedError)
    ELSE Return(res.data[1].response)

\* ------------------------------------------------------------------ getAll

\* {...config, cursor}
WithCursor(config, c) == Assign(config, [cursor |-> c])

\* the new page put before the earlier ones
ConcatResultsPrepend(acc, page) == page \o acc

\* results.concat(res.results)
ConcatResults(acc, page) == acc \o page

\* a remaining count of zero does not end the loop
LoopBreakOnlyBelowZero(remaining) == remaining < 0

\* res.remaining <= 0
LoopBreak(remaining) == remaining <= 0

\* the cursor advanced by two
NextCursorSkip(c) == c + 2

\* cursor++
NextCursor(c) == c + 1

\* a failed page returns what was accumulated instead of failing the call
GetAllStepSwallow(cur, acc, page) ==
    IF page.kind = "throw"
    THEN [break |-> TRUE, cursor |-> cur, results |-> acc, outcome |-> Return(acc)]
    ELSE LET all == ConcatResults(acc, page.value.results)
         IN IF LoopBreak(page.value.remaining)
            THEN [break |-> TRUE, cursor |-> cur, results |-> all,
                  outcome |-> Return(all)]
            ELSE [break |-> FALSE, cursor |-> NextCursor(cur), results |-> all,
                  outcome |-> NoOutcome]

\* one turn of the page loop, from the settling of the awaited search promise
\* (page: what search returned or threw) to the next search call or the end
\* of getAll
GetAllStep(cur, acc, page) ==
    IF page.kind = "throw"
    THEN [break |-> TRUE, cursor |-> cur, results |-> acc, outcome |-> page]
    ELSE LET all == ConcatResults(acc, page.value.results)
         IN IF LoopBreak(page.value.remaining)
            THEN [break |-> TRUE, cursor |-> cur, results |-> all,
                  outcome |-> Return(all)]
            ELSE [break |-> FALSE, cursor |-> NextCursor(cur), results |-> all,
                  outcome |-> NoOutcome]

\* ------------------------------------------------------------------ getOne

Null == [null |-> TRUE]

\* searchResults.response.results[0] || null, where searchResults is what
\* search returned: the payload itself (found: the settled search promise)
GetOneResult(found) ==
    IF found.kind = "throw" THEN found
    ELSE IF "response" \notin DOMAIN found.value THEN Throw(TypeError)
    ELSE LET rs == found.value.response.results
         IN IF Len(rs) > 0 THEN Return(rs[1]) ELSE Return(Null)

\* ------------------------------------------------------------------ the remote object API

Recs == {[_id |-> "r1"], [_id |-> "r2"]}
PageChoices == SeqsUpTo(Recs, MaxPageLen)
Remainings == {-1, 0, 1}

Ok(body) == [ok |-> TRUE, data |-> <<body>>]
\* a success response without a body
OkEmpty == [ok |-> TRUE, data |-> <<>>]
\* a network failure or a non-2xx status: axios rejects
Rejected == [ok |-> FALSE]

IsSearch(req) == req.method = "GET" /\ req.url = ObjectUrl
IsGetObject(req) == req.method = "GET" /\ req.url # ObjectUrl

\* the stored record a request's url names, if any
Target(req) == {id \in DOMAIN store : req.url = ObjectUrl \o "/" \o id}

SearchPages ==
    {Ok([response |-> [results |-> p, remaining |-> n]]) :
        p \in PageChoices, n \in Remainings}

\* responses outside the contract, by kind of request
FaultReplies(req) ==
    {Rejected, OkEmpty, Ok(EmptyObj)}
    \cup (IF req.method = "POST"
          THEN {Ok(b) : b \in {[status |-> "error", id |-> "id9"], [id |-> "id9"],
                               [status |-> "success"],
                               [status |-> "success", id |-> ""],
                               [status |-> "success", id |-> "id9"]}}
          ELSE {})
    \cup (IF IsSearch(req)
          THEN {Ok([response |-> [results |-> p, remaining |-> 0,
                                  response |-> [results |-> p]]]) :
                    p \in SeqsUpTo(Recs, 1)}
          ELSE {})

\* ------------------------------------------------------------------ actions

\* a call starts and runs to its first await (out is NoOutcome, reqs the
\* request it awaits) or to its end without one
Begin(o, a, reqs, out) ==
    /\ pc = "idle"
    /\ pc' = IF out.kind = "none" THEN "await" ELSE "done"
    /\ op' = o
    /\ arg' = a
    /\ inflight' = reqs
    /\ requests' = reqs
    /\ outcome' = out
    /\ UNCHANGED <<reply, responses, searched, faulty, created>>

\* the awaited promise settles and the call ends with `out`
End(out) ==
    /\ pc' = "done"
    /\ outcome' = out
    /\ responses' = Append(responses, reply[1])
    /\ reply' = <<>>
    /\ UNCHANGED <<op, arg, inflight, requests, searched, cursor, results, store,
                   created, faulty>>

\* the continuation of the await of an axios call in operation o
Resumes(o) == pc = "await" /\ op = o /\ Len(reply) = 1

\* the continuation of the await of search's promise in operation o
SearchSettled(o) == pc = "await" /\ op = o /\ Len(searched) = 1

CallGetByID ==
    \E id \in LookupIds :
        /\ Begin("getByID", id, <<GetByIDRequest(id)>>, NoOutcome)
        /\ UNCHANGED <<cursor, results, store>>

GetByIDResume == Resumes("getByID") /\ End(GetByIDResult(reply[1]))

CallCreate ==
    \E data \in DataChoices :
        /\ Begin("create", data, <<CreateRequest(data)>>, NoOutcome)
        /\ UNCHANGED <<cursor, results, store>>

CreateResume == Resumes("create") /\ End(CreateResult(reply[1]))

CallSave ==
    \E inst \in SaveInstances :
        /\ IF MissingId(inst)
           THEN Begin("save", inst, <<>>, Throw(SaveNoIdError))
           ELSE Begin("save", inst, <<SaveRequest(inst)>>, NoOutcome)
        /\ UNCHANGED <<cursor, results, store>>

SaveResume == Resumes("save") /\ End(SaveResult(reply[1]))

CallSearch ==
    \E config \in SearchConfigs :
        /\ Begin("search", config, <<SearchRequest(config)>>, NoOutcome)
        /\ UNCHANGED <<cursor, results, store>>

\* the continuation of search after its axios call: it settles search's
\* promise, which is the caller's when search was called directly and the one
\* getAll or getOne awaits otherwise
SearchResume ==
    \/ Resumes("search") /\ End(SearchResult(reply[1]))
    \/ /\ Resumes("getAll") \/ Resumes("getOne")
       /\ searched' = <<SearchResult(reply[1])>>
       /\ responses' = Append(responses, reply[1])
       /\ reply' = <<>>
       /\ UNCHANGED <<pc, op, arg, inflight, requests, cursor, results, outcome,
                      store, created, faulty>>

CallGetOne ==
    \E config \in PagingConfigs :
        /\ Begin("getOne", config, <<SearchRequest(config)>>, NoOutcome)
        /\ UNCHANGED <<cursor, results, store>>

GetOneResume ==
    /\ SearchSettled("getOne")
    /\ pc' = "done"
    /\ outcome' = GetOneResult(searched[1])
    /\ searched' = <<>>
    /\ UNCHANGED <<op, arg, inflight, reply, requests, responses, cursor, results,
                   store, created, faulty>>

CallGetAll ==
    \E config \in GetAllConfigs :
        /\ Begin("getAll", config, <<SearchRequest(WithCursor(config, 0))>>, NoOutcome)
        /\ cursor' = 0
        /\ results' = <<>>
        /\ UNCHANGED store

GetAllResume ==
    /\ SearchSettled("getAll")
    /\ LET step == GetAllStep(cursor, results, searched[1])
           req == SearchRequest(WithCursor(arg, step.cursor))
       IN /\ step.break \/ Len(requests) < MaxPages
          /\ pc' = IF step.break THEN "done" ELSE "await"
          /\ outcome' = step.outcome
          /\ cursor' = step.cursor
          /\ results' = step.results
          /\ inflight' = IF step.break THEN inflight ELSE Append(inflight, req)
          /\ requests' = IF step.break THEN requests ELSE Append(requests, req)
    /\ searched' = <<>>
    /\ UNCHANGED <<op, arg, reply, responses, store, created, faulty>>

\* the caller takes the settled promise and is free to make its next call
Finish ==
    /\ pc = "done"
    /\ pc' = "idle"
    /\ created' = IF op = "create" /\ outcome.kind = "return" /\ ~faulty
                  THEN <<[data |-> arg, id |-> outcome.value]>> ELSE <<>>
    /\ op' = "none"
    /\ arg' = EmptyObj
    /\ inflight' = <<>>
    /\ requests' = <<>>
    /\ responses' = <<>>
    /\ cursor' = 0
    /\ results' = <<>>
    /\ outcome' = NoOutcome
    /\ faulty' = FALSE
    /\ UNCHANGED <<reply, searched, store>>

\* the environment answers the request in flight
Answer(res, fault) ==
    /\ reply' = <<res>>
    /\ inflight' = Tail(inflight)
    /\ faulty' = (faulty \/ fault)
    /\ UNCHANGED <<pc, op, arg, requests, responses, searched, cursor, results, outcome,
                   created>>

Pending == Len(inflight) > 0 /\ Len(reply) = 0

\* GET {collection}/{id}
ServerGetObject ==
    /\ Pending
    /\ IsGetObject(inflight[1])
    /\ LET hit == Target(inflight[1])
       IN IF hit = {} THEN Answer(Rejected, FALSE)
          ELSE \E id \in hit : Answer(Ok([response |-> store[id]]), FALSE)
    /\ UNCHANGED store

\* POST {collection}/
ServerCreate ==
    /\ Pending
    /\ inflight[1].method = "POST"
    /\ LET n == Cardinality(DOMAIN store)
           id == IdOf(n + 1)
       IN IF n < MaxStored
          THEN /\ store' = [i \in DOMAIN store \cup {id} |->
                              IF i = id THEN Assign(inflight[1].data, [_id |-> id])
                              ELSE store[i]]
               /\ Answer(Ok([status |-> "success", id |-> id]), FALSE)
          ELSE /\ Answer(Ok([status |-> "error"]), FALSE)
               /\ UNCHANGED store

\* PATCH {collection}/{id}
ServerPatch ==
    /\ Pending
    /\ inflight[1].method = "PATCH"
    /\ LET hit == Target(inflight[1])
       IN IF hit = {} THEN Answer(Rejected, FALSE) /\ UNCHANGED store
          ELSE \E id \in hit :
                 /\ store' = [store EXCEPT ![id] = Assign(@, inflight[1].data)]
                 /\ Answer(OkEmpty, FALSE)

\* GET {collection}
ServerSearch ==
    /\ Pending
    /\ IsSearch(inflight[1])
    /\ \E res \in SearchPages : Answer(res, FALSE)
    /\ UNCHANGED store

\* a response outside the contract
ServerFault ==
    /\ Pending
    /\ \E res \in FaultReplies(inflight[1]) : Answer(res, TRUE)
    /\ UNCHANGED store

\* ------------------------------------------------------------------ specifications

Init ==
    /\ pc = "idle"
    /\ op = "none"
    /\ arg = EmptyObj
    /\ inflight = <<>>
    /\ reply = <<>>
    /\ requests = <<>>
    /\ responses = <<>>
    /\ searched = <<>>
    /\ cursor = 0
    /\ results = <<>>
    /\ outcome = NoOutcome
    /\ store = EmptyObj
    /\ created = <<>>
    /\ faulty = FALSE

\* getByID, create and save against the object store
NextObjects ==
    \/ CallGetByID \/ GetByIDResume
    \/ CallCreate \/ CreateResume
    \/ CallSave \/ SaveResume
    \/ ServerGetObject \/ ServerCreate \/ ServerPatch \/ ServerFault
    \/ Finish

SpecObjects == Init /\ [][NextObjects]_vars

\* search, getAll and getOne against the collection
NextSearch ==
    \/ CallSearch \/ SearchResume
    \/ CallGetAll \/ GetAllResume
    \/ CallGetOne \/ GetOneResume
    \/ ServerSearch \/ ServerFault
    \/ Finish

SpecSearch == Init /\ [][NextSearch]_vars

Next == NextObjects \/ NextSearch

Spec == Init /\ [][Next]_vars

\* ------------------------------------------------------------------ properties

\* what a response is, read off the wire and not through the client's checks
HasBody(res) == res.ok /\ Len(res.data) = 1
HasPayload(res) == HasBody(res) /\ "response" \in DOMAIN res.data[1]
PageOf(res) == res.data[1].response

RECURSIVE ConcatPages(_)
ConcatPages(rs) ==
    IF Len(rs) = 0 THEN <<>>
    ELSE PageOf(rs[1]).results \o ConcatPages(Tail(rs))

\* the first page of a sequence of responses whose remaining count is <= 0
LastPage(rs) ==
    {i \in 1..Len(rs) :
        /\ \A j \in 1..i : HasPayload(rs[j])
        /\ PageOf(rs[i]).remaining <= 0
        /\ \A j \in 1..(i - 1) : PageOf(rs[j]).remaining > 0}

\* C1: getOne makes one search call and returns the first element of that
\* search's results, or null when there are none; it raises only when the
\* search raises (and then with the search's error).
C1_GetOneFirstOrNull ==
    (op = "getOne" /\ pc = "done") =>
        /\ Len(requests) = 1
        /\ LET found == SearchResult(responses[1])
           IN IF found.kind = "throw"
              THEN outcome.kind = "throw" /\ outcome.value = found.value
              ELSE /\ outcome.kind = "return"
                   /\ outcome.value = IF Len(found.value.results) > 0
                                      THEN found.value.results[1] ELSE Null

\* C2: when the store's pages end with the first page whose remaining count
\* is <= 0, getAll returns the concatenation of all those pages' results, in
\* request order, nothing dropped and nothing duplicated.
C2_GetAllConcatenation ==
    (op = "getAll" /\ pc = "done" /\ LastPage(responses) # {}) =>
        /\ LastPage(responses) = {Len(responses)}
        /\ outcome.kind = "return"
        /\ outcome.value = ConcatPages(responses)

C2_Witness ==
    /\ op = "getAll" /\ pc = "done" /\ outcome.kind = "return"
    /\ Len(responses) = 3
    /\ PageOf(responses[1]).results = <<[_id |-> "r2"], [_id |-> "r1"]>>
    /\ PageOf(responses[2]).results = <<>>
    /\ PageOf(responses[3]).results = <<[_id |-> "r1"], [_id |-> "r1"]>>
    /\ Len(outcome.value) = 4

\* C3: save on an instance whose identifier is missing or empty raises the
\* precondition error and issues no request; save issues its one PATCH
\* request only when the identifier is non-empty.
C3_SaveNeedsId ==
    (op = "save") =>
        LET noId == "_id" \notin DOMAIN arg \/ arg._id = ""
        IN /\ noId => /\ requests = <<>>
                      /\ pc = "done"
                      /\ outcome = Throw(SaveNoIdError)
           /\ ~noId => /\ Len(requests) = 1
                       /\ requests[1].method = "PATCH"
                       /\ requests[1].url = ObjectUrl \o "/" \o arg._id

C3_Witness ==
    /\ op = "save" /\ pc = "done"
    /\ "_id" \in DOMAIN arg /\ arg._id = ""
    /\ outcome.kind = "throw" /\ requests = <<>>

\* C4: create returns an identifier exactly when the response has a body
\* whose status is "success" and which carries a non-empty identifier, and
\* returns that identifier; in every other case it raises.
C4_CreateReturnsIffSuccess ==
    (op = "create" /\ pc = "done") =>
        LET res == responses[1]
            good == /\ HasBody(res)
                    /\ "status" \in DOMAIN res.data[1]
                    /\ res.data[1].status = "success"
                    /\ "id" \in DOMAIN res.data[1]
                    /\ res.data[1].id # ""
        IN /\ good => outcome.kind = "return" /\ outcome.value = res.data[1].id
           /\ ~good => outcome.kind = "throw"

C4_Witness ==
    /\ op = "create" /\ pc = "done"
    /\ outcome.kind = "return" /\ outcome.value = IdOf(1)
    /\ ~faulty

\* C5: when the search for a page of getAll fails, on the first page or
\* later, getAll issues no further request, never returns what it had
\* accumulated, and once it has resumed has failed with that failure.
C5_GetAllFailsWhole ==
    (op = "getAll") =>
        \A i \in 1..Len(responses) :
            ~HasPayload(responses[i]) =>
                /\ i = Len(responses)
                /\ Len(requests) = i
                /\ inflight = <<>>
                /\ outcome.kind # "return"
                /\ pc = "done" \/ Len(searched) = 1
                /\ pc = "done" =>
                      /\ outcome.kind = "throw"
                      /\ outcome.value = IF responses[i].ok THEN SearchFailedError
                                         ELSE TransportError

C5_Witness ==
    /\ op = "getAll" /\ pc = "done"
    /\ Len(responses) = 3
    /\ ~HasPayload(responses[3])
    /\ Len(results) > 0
    /\ outcome.kind = "throw"

\* C6: getAll stops right after the first page whose remaining count is <= 0
\* and issues no request after it; when nothing matches (an empty page with
\* nothing remaining) it returns the empty sequence after exactly one request.
C6_GetAllStops ==
    (op = "getAll") =>
        /\ \A i \in 1..Len(responses) :
              (HasPayload(responses[i]) /\ PageOf(responses[i]).remaining <= 0) =>
                  /\ i = Len(responses)
                  /\ pc = "done" \/ Len(searched) = 1
                  /\ Len(requests) = i
                  /\ inflight = <<>>
        /\ ( /\ Len(responses) > 0
             /\ HasPayload(responses[1])
             /\ PageOf(responses[1]).results = <<>>
             /\ PageOf(responses[1]).remaining = 0 ) =>
                 /\ Len(requests) = 1
                 /\ pc = "done" \/ Len(searched) = 1
                 /\ pc = "done" => outcome = Return(<<>>)

C6_Witness ==
    /\ op = "getAll" /\ pc = "done"
    /\ Len(requests) = 1 /\ Len(responses) = 1
    /\ HasPayload(responses[1])
    /\ PageOf(responses[1]).results = <<>>
    /\ PageOf(responses[1]).remaining = 0
    /\ outcome.kind = "return"

\* C7: within one getAll call the k-th request carries cursor k-1, at most
\* one request is outstanding, and a page's request is issued only after all
\* earlier pages' responses have been processed: no request is in flight or
\* answered while a settled search still waits for getAll to resume.
C7_GetAllSequential ==
    (op = "getAll") =>
        /\ Len(requests) >= 1
        /\ \A k \in 1..Len(requests) : requests[k].params.cursor = k - 1
        /\ Len(inflight) + Len(reply) + Len(searched) <= 1
        /\ Len(requests) <= Len(responses) + 1
        /\ Len(requests) = Len(responses) + Len(inflight) + Len(reply)

C7_Witness ==
    /\ op = "getAll"
    /\ Len(requests) = 3 /\ Len(responses) = 2 /\ Len(inflight) = 1
    /\ requests[3].params.cursor = 2

\* C8: against a store that keeps to the contract, getByID on the identifier
\* the preceding create returned yields a record that has every supplied
\* field with its supplied value and that identifier.
C8_CreateFetchRoundTrip ==
    (op = "getByID" /\ pc = "done" /\ ~faulty
        /\ Len(created) = 1 /\ arg = created[1].id) =>
        /\ outcome.kind = "return"
        /\ \A f \in DOMAIN created[1].data :
              f \in DOMAIN outcome.value /\ outcome.value[f] = created[1].data[f]
        /\ "_id" \in DOMAIN outcome.value
        /\ outcome.value._id = arg

C8_Witness ==
    /\ op = "getByID" /\ pc = "done" /\ ~faulty
    /\ Len(created) = 1 /\ arg = created[1].id
    /\ created[1].data = [name |-> "y", color |-> "x"]
    /\ outcome.kind = "return"

\* C9: getByID returns a record only when the response carries the record
\* payload; a response that is a non-success or carries no usable body makes
\* it raise, never return an instance.
C9_GetByIDRaisesWithoutPayload ==
    (op = "getByID" /\ pc = "done") =>
        /\ ~HasPayload(responses[1]) => outcome.kind = "throw"
        /\ outcome.kind = "return" => HasPayload(responses[1])

\* C10: the descending parameter of a search request is the string "true"
\* exactly when the caller's sort has descending set and the boolean false
\* otherwise; constraints default to the text of the empty array and the
\* cursor is left out when the caller gave none.
C10_SearchParams ==
    (op \in {"search", "getOne", "getAll"}) =>
        \A k \in 1..Len(requests) :
            LET p == requests[k].params
                desc == /\ "sort" \in DOMAIN arg
                        /\ "descending" \in DOMAIN arg.sort
                        /\ arg.sort.descending
            IN /\ desc => p.descending = [string |-> "true"]
               /\ ~desc => p.descending = [boolean |-> FALSE]
               /\ "constraints" \notin DOMAIN arg => p.constraints = "[]"
               /\ (op # "getAll" /\ "cursor" \notin DOMAIN arg)
                     => "cursor" \notin DOMAIN p

C10_Witness ==
    /\ op = "search" /\ Len(requests) = 1
    /\ arg = [sort |-> [sort_field |-> "createdAt", descending |-> FALSE]]
    /\ requests[1].params =
          [constraints |-> "[]", sort_field |-> "createdAt",
           descending |-> [boolean |-> FALSE]]

====
